---- MODULE Spec2Model ----
(***************************************************************************)
(* A model of the vufo music-streaming web application (src/app.py):       *)
(* the users / playlists / songs tables, the cookie session, and the REST  *)
(* handlers that read and write them.                                      *)
(***************************************************************************)
EXTENDS Integers, Sequences, FiniteSets, Bags, TLC

(***************************************************************************)
(* Bounds of the model.                                                    *)
(***************************************************************************)
MaxPlaylistId == 2
MaxPosition == 2

(***************************************************************************)
(* Input domains.                                                          *)
(***************************************************************************)
\* Python's None for a string-valued JSON key or query argument that is absent.
None == "None"
\* Python's None for an integer-valued JSON key that is absent.
NoneId == -1

Clients == {"c1", "c2"}
Names == {"n1"}
YoutubeIds == {"a", "b"}
Titles == {"t"}
Workers == {1, 2}

\* request bodies: data.get('playlist_id'), data.get('song'), ...
PlaylistIdInputs == {NoneId} \cup (0 .. MaxPlaylistId)
NameInputs == {None} \cup Names
SongIdInputs == {None} \cup YoutubeIds
\* a song object: has = the 'song' key is in the body; a field equal to None
\* is a key the object lacks
SongInputs ==
  {[has |-> FALSE, id |-> None, title |-> None]}
    \cup [has : {TRUE}, id : {None} \cup YoutubeIds, title : {None} \cup Titles]

VARIABLES users, playlists, songs, session, resp, pending

vars == <<users, playlists, songs, session, resp, pending>>

(***************************************************************************)
(* Helpers.                                                                *)
(***************************************************************************)
Max(S) == CHOOSE x \in S : \A y \in S : y <= x

\* Python truthiness of the values the handlers test with `not`
FalsyId(v) == v = NoneId \/ v = 0
\* (a test for the empty string that lets None through)
FalsyStr_empty_only(v) == v = ""
FalsyStr(v) == v = None \/ v = ""
\* None or the empty dict {}
FalsySong(s) == ~s.has \/ (s.id = None /\ s.title = None)

\* INTEGER PRIMARY KEY of SQLite: one more than the largest id in the table
NextId(rows) == IF rows = {} THEN 1 ELSE Max({r.id : r \in rows}) + 1


(***************************************************************************)
(* Responses: jsonify(...) with its status code.  error is the body's      *)
(* 'error' field (None when the body has none).                            *)
(***************************************************************************)
Response(op, c, args, status, error, body) ==
  [op |-> op, client |-> c, args |-> args, status |-> status, error |-> error,
   body |-> body]

\* an exception that leaves the handler: internal_error answers it
InternalServerError(op, c, args) ==
  Response(op, c, args, 500, "Internal server error", <<>>)

(***************************************************************************)
(* get_or_create_user                                                      *)
(***************************************************************************)
\* str(uuid.uuid4()): a token no other client holds
uuid4(c) == IF c = "c1" THEN "u1" ELSE "u2"

get_or_create_user(U, sess, c) ==
  LET sess2 == IF sess[c].user_id = None
               THEN [sess EXCEPT ![c].user_id = uuid4(c)]
               ELSE sess
      sid == sess2[c].user_id
      U2 == IF \E u \in U : u.session_id = sid
            THEN U
            ELSE U \cup {[id |-> NextId(U), session_id |-> sid]}
  IN [session |-> sess2, users |-> U2,
      user |-> CHOOSE u \in U2 : u.session_id = sid]

(***************************************************************************)
(* Queries and writes of the playlist handlers.                            *)
(***************************************************************************)
\* Playlist.query.filter_by(user_id=user.id, name=playlist_name).first()
PlaylistNamed(P, uid, name) == {p \in P : p.user_id = uid /\ p.name = name}

\* Playlist.query.filter_by(id=playlist_id, user_id=user.id).first()
FindPlaylist(P, pid, uid) == {p \in P : p.id = pid /\ p.user_id = uid}

\* db.session.add(Playlist(name, user_id)); db.session.commit()
InsertPlaylist(P, name, uid) ==
  P \cup {[id |-> NextId(P), name |-> name, user_id |-> uid]}

\* The songs table is a bag of rows [youtube_id, title, playlist_id, position]:
\* no handler reads Song.id, which only tells equal rows apart.

\* Song.query.filter_by(youtube_id=..., playlist_id=playlist_id).first()
ExistingSong(S, yid, pid) ==
  {s \in BagToSet(S) : s.youtube_id = yid /\ s.playlist_id = pid}

\* Song.query.filter_by(playlist_id=playlist_id)
SongsOf(S, pid) == {s \in BagToSet(S) : s.playlist_id = pid}

\* (the last song of any playlist instead of this one's)
next_position_any_playlist(S, pid) ==
  IF BagToSet(S) = {} THEN 0
  ELSE Max({s.position : s \in BagToSet(S)}) + 1

\* (the number of songs instead of the last position + 1)
next_position_count(S, pid) == Cardinality(SongsOf(S, pid))

\* last_song.position + 1 if last_song else 0
next_position(S, pid) ==
  IF SongsOf(S, pid) = {} THEN 0
  ELSE Max({s.position : s \in SongsOf(S, pid)}) + 1

\* (a table without the constraint)
unique_song_in_playlist_off(S, yid, pid) == TRUE

\* UniqueConstraint('youtube_id', 'playlist_id'): may this row be committed?
unique_song_in_playlist(S, yid, pid) ==
  ~ \E s \in BagToSet(S) : s.youtube_id = yid /\ s.playlist_id = pid

\* db.session.add(song); db.session.commit() once the constraint allows it
InsertSong(S, yid, title, pid, pos) ==
  S (+) SetToBag({[youtube_id |-> yid, title |-> title, playlist_id |-> pid,
                   position |-> pos]})

\* db.session.delete(song); db.session.commit()
DeleteSong(S, yid, pid) ==
  IF ExistingSong(S, yid, pid) = {} THEN S
  ELSE S (-) SetToBag({CHOOSE s \in ExistingSong(S, yid, pid) : TRUE})

\* (a relationship without the cascade)
DeletePlaylistSongs_no_cascade(S, pid) == S

\* db.session.delete(playlist) with cascade='all, delete-orphan' on songs
DeletePlaylistSongs(S, pid) ==
  [s \in BagToSet(S) \ SongsOf(S, pid) |-> S[s]]

\* Song.query.filter_by(playlist_id=playlist_id).count()
SongCount(S, pid) == BagCardinality([s \in SongsOf(S, pid) |-> S[s]])

\* the orders .order_by(Song.position).all() may return the rows of
\* playlist pid in (rows of equal position come in any order)
OrderedByPosition(S, pid) ==
  {q \in [1 .. SongCount(S, pid) -> SongsOf(S, pid)] :
     /\ \A s \in SongsOf(S, pid) :
          Cardinality({i \in 1 .. SongCount(S, pid) : q[i] = s}) = S[s]
     /\ \A i, j \in 1 .. SongCount(S, pid) :
          i < j => q[i].position <= q[j].position}

\* songs_data of get_playlist
SongsData(q) == [i \in 1 .. Len(q) |-> [id |-> q[i].youtube_id, title |-> q[i].title]]

\* playlists_data of get_all_playlists (the order of .all() is not fixed)
PlaylistsData(P, S, uid) ==
  {[id |-> p.id, name |-> p.name, song_count |-> SongCount(S, p.id)] :
     p \in {x \in P : x.user_id = uid}}


(***************************************************************************)
(* create_playlist, as far as its last read (check) and its write (commit).*)
(***************************************************************************)
create_playlist_check(U, P, sess, c, name) ==
  LET args == [name |-> name]
      g == get_or_create_user(U, sess, c)
  IN IF FalsyStr(name)
     THEN [returned |-> TRUE, users |-> U, session |-> sess, user_id |-> 0,
           response |-> Response("create_playlist", c, args, 400,
                                 "Playlist name is required", <<>>)]
     ELSE IF PlaylistNamed(P, g.user.id, name) # {}
     THEN [returned |-> TRUE, users |-> g.users, session |-> g.session,
           user_id |-> g.user.id,
           response |-> Response("create_playlist", c, args, 400,
                                 "Playlist already exists", <<>>)]
     ELSE [returned |-> FALSE, users |-> g.users, session |-> g.session,
           user_id |-> g.user.id,
           response |-> Response("create_playlist", c, args, 0, None, <<>>)]

create_playlist_commit(P, c, name, uid) ==
  [playlists |-> InsertPlaylist(P, name, uid),
   response |-> Response("create_playlist", c, [name |-> name], 200, None,
                         [playlist |-> [id |-> NextId(P), name |-> name]])]

(***************************************************************************)
(* add_to_playlist: the reads up to the Song object, then the commit.      *)
(***************************************************************************)
add_to_playlist_check(U, P, S, sess, c, pid, song) ==
  LET args == [playlist_id |-> pid, song |-> song]
      g == get_or_create_user(U, sess, c)
      out(status, error, body, us, se) ==
        [returned |-> TRUE, users |-> us, session |-> se, position |-> 0,
         response |-> Response("add_to_playlist", c, args, status, error, body)]
  IN IF FalsyId(pid) \/ FalsySong(song)
     THEN out(400, "Missing parameters", <<>>, U, sess)
     ELSE IF FindPlaylist(P, pid, g.user.id) = {}
     THEN out(404, "Playlist not found", <<>>, g.users, g.session)
     ELSE IF song.id = None
     \* song_data['id'] raises KeyError
     THEN out(500, "Internal server error", <<>>, g.users, g.session)
     ELSE IF ExistingSong(S, song.id, pid) # {}
     THEN out(200, None, [message |-> "Song already in playlist"],
              g.users, g.session)
     ELSE IF song.title = None
     \* song_data['title'] raises KeyError
     THEN out(500, "Internal server error", <<>>, g.users, g.session)
     ELSE [returned |-> FALSE, users |-> g.users, session |-> g.session,
           position |-> next_position(S, pid),
           response |-> Response("add_to_playlist", c, args, 0, None, <<>>)]

add_to_playlist_commit(S, c, pid, song, pos) ==
  LET args == [playlist_id |-> pid, song |-> song]
  IN IF unique_song_in_playlist(S, song.id, pid)
     THEN [songs |-> InsertSong(S, song.id, song.title, pid, pos),
           response |-> Response("add_to_playlist", c, args, 200, None,
                                 [song |-> [id |-> song.id, title |-> song.title]])]
     \* IntegrityError leaves commit()
     ELSE [songs |-> S, response |-> InternalServerError("add_to_playlist", c, args)]

(***************************************************************************)
(* remove_from_playlist, delete_playlist, get_playlist, get_all_playlists  *)
(***************************************************************************)
remove_from_playlist_result(U, P, S, sess, c, pid, song_id) ==
  LET args == [playlist_id |-> pid, song_id |-> song_id]
      g == get_or_create_user(U, sess, c)
      out(status, error, us, se, so) ==
        [users |-> us, session |-> se, songs |-> so,
         response |-> Response("remove_from_playlist", c, args, status, error, <<>>)]
  IN IF FalsyId(pid) \/ FalsyStr(song_id)
     THEN out(400, "Missing parameters", U, sess, S)
     ELSE IF FindPlaylist(P, pid, g.user.id) = {}
     THEN out(404, "Playlist not found", g.users, g.session, S)
     ELSE out(200, None, g.users, g.session, DeleteSong(S, song_id, pid))

delete_playlist_result(U, P, S, sess, c, pid) ==
  LET args == [playlist_id |-> pid]
      g == get_or_create_user(U, sess, c)
      out(status, error, us, se, pl, so) ==
        [users |-> us, session |-> se, playlists |-> pl, songs |-> so,
         response |-> Response("delete_playlist", c, args, status, error, <<>>)]
  IN IF FalsyId(pid)
     THEN out(400, "Playlist ID is required", U, sess, P, S)
     ELSE IF FindPlaylist(P, pid, g.user.id) = {}
     THEN out(404, "Playlist not found", g.users, g.session, P, S)
     ELSE out(200, None, g.users, g.session,
              P \ FindPlaylist(P, pid, g.user.id), DeletePlaylistSongs(S, pid))

\* the responses get_playlist may give (one per order of equal positions)
get_playlist_responses(U, P, S, sess, c, pid) ==
  LET args == [playlist_id |-> pid]
      g == get_or_create_user(U, sess, c)
      found == FindPlaylist(P, pid, g.user.id)
  IN IF found = {}
     THEN {Response("get_playlist", c, args, 404, "Playlist not found", <<>>)}
     ELSE {Response("get_playlist", c, args, 200, None,
                    [playlist |-> [id |-> pid,
                                   name |-> (CHOOSE p \in found : TRUE).name],
                     songs |-> SongsData(q)]) :
             q \in OrderedByPosition(S, pid)}

get_all_playlists_response(U, P, S, sess, c) ==
  LET g == get_or_create_user(U, sess, c)
  IN Response("get_all_playlists", c, <<>>, 200, None,
              [playlists |-> PlaylistsData(P, S, g.user.id)])


(***************************************************************************)
(* search, get_stream_url and the extraction adapter.                      *)
(***************************************************************************)
QueryInputs == {"", "q"}
\* what search_youtube may return ([] also when the library raises)
SearchResults == {<<>>, <<"a">>, <<"a", "b">>}

search_response(c, q, results) ==
  IF FalsyStr(q)
  THEN Response("search", c, [q |-> q], 400, "No query provided", <<>>)
  ELSE Response("search", c, [q |-> q], 200, None, [results |-> results])

VideoIdInputs == {None, "dQw4w9WgXcQ"}
UrlInputs == {None, "https://www.youtube.com/watch?v=dQw4w9WgXcQ",
              "https://youtu.be/dQw4w9WgXcQ", "dQw4w9WgXcQ",
              "https://example.com/x"}

\* the four URL patterns, then a bare 11-character id, else None
extract_video_id(url) ==
  CASE url = "https://www.youtube.com/watch?v=dQw4w9WgXcQ" -> "dQw4w9WgXcQ"
    [] url = "https://youtu.be/dQw4w9WgXcQ" -> "dQw4w9WgXcQ"
    [] url = "dQw4w9WgXcQ" -> "dQw4w9WgXcQ"
    [] OTHER -> None

\* The formats a video may offer: audio/video = the track's codecs,
\* ext = file extension, resolution and abr = 0 when the stream has none.
Formats ==
  {[url |-> "audio-128", audio |-> TRUE, video |-> FALSE, ext |-> "mp4",
    resolution |-> 0, abr |-> 128],
   [url |-> "audio-160", audio |-> TRUE, video |-> FALSE, ext |-> "webm",
    resolution |-> 0, abr |-> 160],
   [url |-> "prog-360", audio |-> TRUE, video |-> TRUE, ext |-> "mp4",
    resolution |-> 360, abr |-> 96],
   [url |-> "prog-720", audio |-> TRUE, video |-> TRUE, ext |-> "mp4",
    resolution |-> 720, abr |-> 192],
   [url |-> "prog-3gpp", audio |-> TRUE, video |-> TRUE, ext |-> "3gpp",
    resolution |-> 144, abr |-> 24],
   [url |-> "video-1080", audio |-> FALSE, video |-> TRUE, ext |-> "mp4",
    resolution |-> 1080, abr |-> 0]}

\* what YouTube(...) gives: it raises, or yt.streams is a set of formats
Offers == [raises : BOOLEAN, streams : SUBSET Formats]
ApiOffers == {o \in Offers : o.streams \in {{}, Formats}}

\* yt.streams.filter(progressive=True, file_extension='mp4')
\*   .order_by('resolution').desc()
progressive_streams(F) ==
  {f \in F : f.audio /\ f.video /\ f.ext = "mp4" /\ f.resolution # 0}

\* yt.streams.filter(only_audio=True).order_by('abr').desc()
audio_streams(F) == {f \in F : f.audio /\ ~f.video /\ f.abr # 0}

\* (ascending instead of descending order)
first_by_resolution_asc(F) ==
  CHOOSE f \in F : \A g \in F : f.resolution <= g.resolution

\* .first() of a query in descending order of resolution / abr
first_by_resolution(F) == CHOOSE f \in F : \A g \in F : g.resolution <= f.resolution
first_by_abr(F) == CHOOSE f \in F : \A g \in F : g.abr <= f.abr

\* the stream_url of the result, None when the function returns None
get_audio_stream_url(offer) ==
  IF offer.raises THEN None
  ELSE IF progressive_streams(offer.streams) # {}
  THEN first_by_resolution(progressive_streams(offer.streams)).url
  ELSE IF audio_streams(offer.streams) # {}
  THEN first_by_abr(audio_streams(offer.streams)).url
  ELSE None

get_stream_url_response(c, video_id, url, offer) ==
  LET args == [video_id |-> video_id, url |-> url, offer |-> offer]
      vid == IF FalsyStr(video_id) /\ ~FalsyStr(url)
             THEN extract_video_id(url) ELSE video_id
      out(status, error, body) ==
        Response("get_stream_url", c, args, status, error, body)
  IN IF FalsyStr(video_id) /\ FalsyStr(url)
     THEN out(400, "No video ID or URL provided", <<>>)
     ELSE IF FalsyStr(vid)
     THEN out(400, "Could not extract video ID", <<>>)
     ELSE IF get_audio_stream_url(offer) # None
     THEN out(200, None, [stream_url |-> get_audio_stream_url(offer)])
     ELSE out(500, "Could not extract stream URL", <<>>)

(***************************************************************************)
(* current_playlist: the list kept in the session cookie.                  *)
(***************************************************************************)
ActionInputs == {None, "add", "clear", "set", "shuffle"}
\* an entry of the list: a song object with an id
Entries == [has : {TRUE}, id : YoutubeIds, title : {None} \cup Titles]
\* data.get('songs', []) of action 'set'
SongsInputs == {<<>>} \cup {<<e>> : e \in Entries}
                 \cup {<<e, f>> : e \in Entries, f \in Entries}

RECURSIVE WithoutFirstId(_, _)
\* (list.remove: only the first entry with the id goes)
WithoutFirstId(q, song_id) ==
  IF q = <<>> THEN <<>>
  ELSE IF Head(q).id # song_id
  THEN <<Head(q)>> \o WithoutFirstId(Tail(q), song_id)
  ELSE Tail(q)

RECURSIVE WithoutId(_, _)
\* [song for song in session['current_playlist'] if song['id'] != song_id]
WithoutId(q, song_id) ==
  IF q = <<>> THEN <<>>
  ELSE IF Head(q).id # song_id
  THEN <<Head(q)>> \o WithoutId(Tail(q), song_id)
  ELSE WithoutId(Tail(q), song_id)

\* [s['id'] for s in session['current_playlist']]
IdsOf(q) == {q[i].id : i \in 1 .. Len(q)}

\* data = [action, song, songs] (POST body), song_id (DELETE query argument)
current_playlist_result(sess, c, method, data, song_id) ==
  LET args == [method |-> method, data |-> data, song_id |-> song_id]
      cur == IF sess[c].has_current_playlist THEN sess[c].current_playlist
             ELSE <<>>
      out(status, error, list) ==
        [session |-> [sess EXCEPT ![c].has_current_playlist = TRUE,
                                  ![c].current_playlist = list],
         response |-> Response("current_playlist", c, args, status, error,
                               IF status = 200 THEN [songs |-> list] ELSE <<>>)]
      invalid == out(400, "Invalid action", cur)
  IN CASE method = "GET" -> out(200, None, cur)
       [] method = "POST" /\ data.action = "add" ->
            IF FalsySong(data.song) THEN invalid
            \* song['id'] raises KeyError
            ELSE IF data.song.id = None THEN out(500, "Internal server error", cur)
            ELSE IF data.song.id \notin IdsOf(cur)
            THEN out(200, None, Append(cur, data.song))
            ELSE invalid
       [] method = "POST" /\ data.action = "clear" -> out(200, None, <<>>)
       [] method = "POST" /\ data.action = "set" -> out(200, None, data.songs)
       [] method = "DELETE" /\ ~FalsyStr(song_id) ->
            out(200, None, WithoutId(cur, song_id))
       [] OTHER -> invalid


(***************************************************************************)
(* The state after construction: db.create_all() on an empty database, no  *)
(* cookie on any client, no request in flight.                             *)
(***************************************************************************)
\* no response is on its way to a client
NoResponse == Response("none", None, <<>>, 0, None, <<>>)

Idle == [op |-> "idle", client |-> None, playlist_id |-> NoneId,
         song |-> [has |-> FALSE, id |-> None, title |-> None],
         name |-> None, user_id |-> 0, position |-> 0]

Init ==
  /\ users = {}
  /\ playlists = {}
  /\ songs = EmptyBag
  /\ session = [c \in Clients |-> [user_id |-> None,
                                   has_current_playlist |-> FALSE,
                                   current_playlist |-> <<>>]]
  /\ resp = NoResponse
  /\ pending = [w \in Workers |-> Idle]

(***************************************************************************)
(* The handlers, one request at a time: a request is taken once the        *)
(* response to the one before has been sent.                               *)
(***************************************************************************)
send_response ==
  /\ resp # NoResponse
  /\ resp' = NoResponse
  /\ UNCHANGED <<users, playlists, songs, session, pending>>

search(c, q, results) ==
  /\ resp = NoResponse
  /\ resp' = search_response(c, q, results)
  /\ UNCHANGED <<users, playlists, songs, session, pending>>

get_stream_url(c, video_id, url, offer) ==
  /\ resp = NoResponse
  /\ resp' = get_stream_url_response(c, video_id, url, offer)
  /\ UNCHANGED <<users, playlists, songs, session, pending>>

create_playlist(c, name) ==
  LET chk == create_playlist_check(users, playlists, session, c, name)
      com == create_playlist_commit(playlists, c, name, chk.user_id)
  IN /\ resp = NoResponse
     /\ users' = chk.users
     /\ session' = chk.session
     /\ IF chk.returned
        THEN /\ resp' = chk.response
             /\ playlists' = playlists
        ELSE /\ NextId(playlists) <= MaxPlaylistId
             /\ resp' = com.response
             /\ playlists' = com.playlists
     /\ UNCHANGED <<songs, pending>>

add_to_playlist(c, pid, song) ==
  LET chk == add_to_playlist_check(users, playlists, songs, session, c, pid, song)
      com == add_to_playlist_commit(songs, c, pid, song, chk.position)
  IN /\ resp = NoResponse
     /\ users' = chk.users
     /\ session' = chk.session
     /\ IF chk.returned
        THEN /\ resp' = chk.response
             /\ songs' = songs
        ELSE /\ chk.position <= MaxPosition
             /\ resp' = com.response
             /\ songs' = com.songs
     /\ UNCHANGED <<playlists, pending>>

remove_from_playlist(c, pid, song_id) ==
  LET r == remove_from_playlist_result(users, playlists, songs, session, c, pid,
                                       song_id)
  IN /\ resp = NoResponse
     /\ users' = r.users
     /\ session' = r.session
     /\ songs' = r.songs
     /\ resp' = r.response
     /\ UNCHANGED <<playlists, pending>>

delete_playlist(c, pid) ==
  LET r == delete_playlist_result(users, playlists, songs, session, c, pid)
  IN /\ resp = NoResponse
     /\ users' = r.users
     /\ session' = r.session
     /\ playlists' = r.playlists
     /\ songs' = r.songs
     /\ resp' = r.response
     /\ UNCHANGED pending

get_playlist(c, pid) ==
  LET g == get_or_create_user(users, session, c)
  IN /\ resp = NoResponse
     /\ users' = g.users
     /\ session' = g.session
     /\ resp' \in get_playlist_responses(users, playlists, songs, session, c, pid)
     /\ UNCHANGED <<playlists, songs, pending>>

get_all_playlists(c) ==
  LET g == get_or_create_user(users, session, c)
  IN /\ resp = NoResponse
     /\ users' = g.users
     /\ session' = g.session
     /\ resp' = get_all_playlists_response(users, playlists, songs, session, c)
     /\ UNCHANGED <<playlists, songs, pending>>

current_playlist(c, method, data, song_id) ==
  LET r == current_playlist_result(session, c, method, data, song_id)
  IN /\ resp = NoResponse
     /\ session' = r.session
     /\ resp' = r.response
     /\ UNCHANGED <<users, playlists, songs, pending>>

Next ==
  \/ \E c \in Clients, q \in QueryInputs, results \in SearchResults :
       search(c, q, results)
  \/ \E c \in Clients, video_id \in VideoIdInputs, url \in UrlInputs,
        offer \in ApiOffers :
       get_stream_url(c, video_id, url, offer)
  \/ \E c \in Clients, name \in NameInputs : create_playlist(c, name)
  \/ \E c \in Clients, pid \in PlaylistIdInputs, song \in SongInputs :
       add_to_playlist(c, pid, song)
  \/ \E c \in Clients, pid \in PlaylistIdInputs, song_id \in SongIdInputs :
       remove_from_playlist(c, pid, song_id)
  \/ \E c \in Clients, pid \in PlaylistIdInputs : delete_playlist(c, pid)
  \/ \E c \in Clients, pid \in 0 .. MaxPlaylistId : get_playlist(c, pid)
  \/ \E c \in Clients : get_all_playlists(c)
  \/ send_response

Spec == Init /\ [][Next]_vars


(***************************************************************************)
(* Requests served by concurrent workers: create_playlist and              *)
(* add_to_playlist read first and commit later, and other requests may run *)
(* in between.  SQLite does not enforce the foreign keys, so a song whose  *)
(* playlist was deleted meanwhile is still committed.                      *)
(***************************************************************************)
begin_create_playlist(w, c, name) ==
  LET chk == create_playlist_check(users, playlists, session, c, name)
  IN /\ resp = NoResponse
     /\ pending[w] = Idle
     /\ users' = chk.users
     /\ session' = chk.session
     /\ IF chk.returned
        THEN /\ resp' = chk.response
             /\ pending' = pending
        ELSE /\ resp' = resp
             /\ pending' = [pending EXCEPT ![w] =
                  [Idle EXCEPT !.op = "create_playlist", !.client = c,
                               !.name = name, !.user_id = chk.user_id]]
     /\ UNCHANGED <<playlists, songs>>

commit_create_playlist(w) ==
  LET p == pending[w]
      com == create_playlist_commit(playlists, p.client, p.name, p.user_id)
  IN /\ resp = NoResponse
     /\ p.op = "create_playlist"
     /\ NextId(playlists) <= MaxPlaylistId
     /\ playlists' = com.playlists
     /\ resp' = com.response
     /\ pending' = [pending EXCEPT ![w] = Idle]
     /\ UNCHANGED <<users, songs, session>>

begin_add_to_playlist(w, c, pid, song) ==
  LET chk == add_to_playlist_check(users, playlists, songs, session, c, pid, song)
  IN /\ resp = NoResponse
     /\ pending[w] = Idle
     /\ users' = chk.users
     /\ session' = chk.session
     /\ IF chk.returned
        THEN /\ resp' = chk.response
             /\ pending' = pending
        ELSE /\ chk.position <= MaxPosition
             /\ resp' = resp
             /\ pending' = [pending EXCEPT ![w] =
                  [Idle EXCEPT !.op = "add_to_playlist", !.client = c,
                               !.playlist_id = pid, !.song = song,
                               !.position = chk.position]]
     /\ UNCHANGED <<playlists, songs>>

commit_add_to_playlist(w) ==
  LET p == pending[w]
      com == add_to_playlist_commit(songs, p.client, p.playlist_id, p.song,
                                    p.position)
  IN /\ resp = NoResponse
     /\ p.op = "add_to_playlist"
     /\ songs' = com.songs
     /\ resp' = com.response
     /\ pending' = [pending EXCEPT ![w] = Idle]
     /\ UNCHANGED <<users, playlists, session>>

\* The requests of the interleaved runs: well-formed ones, of one session.
ConcClients == {"c1"}
ValidSongs == [has : {TRUE}, id : YoutubeIds, title : Titles]

NextConc ==
  \/ \E w \in Workers, c \in ConcClients, name \in Names :
       begin_create_playlist(w, c, name)
  \/ \E w \in Workers : commit_create_playlist(w)
  \/ \E w \in Workers, c \in ConcClients, pid \in 1 .. MaxPlaylistId,
        song \in ValidSongs :
       begin_add_to_playlist(w, c, pid, song)
  \/ \E w \in Workers : commit_add_to_playlist(w)
  \/ \E c \in ConcClients, pid \in 1 .. MaxPlaylistId, song_id \in YoutubeIds :
       remove_from_playlist(c, pid, song_id)
  \/ \E c \in ConcClients, pid \in 1 .. MaxPlaylistId : delete_playlist(c, pid)
  \/ send_response

SpecConc == Init /\ [][NextConc]_vars


(***************************************************************************)
(* The extraction adapter alone, over every set of formats.                *)
(***************************************************************************)
NextStream ==
  \/ \E c \in Clients, q \in QueryInputs, results \in SearchResults :
       search(c, q, results)
  \/ \E c \in Clients, video_id \in VideoIdInputs, url \in UrlInputs,
        offer \in Offers :
       get_stream_url(c, video_id, url, offer)
  \/ send_response

SpecStream == Init /\ [][NextStream]_vars

(***************************************************************************)
(* The current playlist of one session.                                    *)
(***************************************************************************)
CurClients == {"c1"}
NoSong == [has |-> FALSE, id |-> None, title |-> None]
NoData == [action |-> None, song |-> NoSong, songs |-> <<>>]
\* a POST body carries an action with the key that action reads
DataInputs ==
  {[NoData EXCEPT !.action = a] : a \in ActionInputs}
    \cup {[NoData EXCEPT !.action = "add", !.song = g] : g \in SongInputs}
    \cup {[NoData EXCEPT !.action = "set", !.songs = q] : q \in SongsInputs}

NextCurrent ==
  \/ \E c \in CurClients : current_playlist(c, "GET", NoData, None)
  \/ \E c \in CurClients, data \in DataInputs :
       current_playlist(c, "POST", data, None)
  \/ \E c \in CurClients, song_id \in SongIdInputs :
       current_playlist(c, "DELETE", NoData, song_id)
  \/ send_response

SpecCurrent == Init /\ [][NextCurrent]_vars


(***************************************************************************)
(* Properties.  A request step is one that puts a response on its way; the *)
(* response names the handler, the client and the arguments it was given.  *)
(***************************************************************************)
Handled(op) == resp = NoResponse /\ resp'.op = op

\* the add_to_playlist response of a committed row (it echoes the song)
Inserted(r) ==
  r.op = "add_to_playlist" /\ r.status = 200 /\ "song" \in DOMAIN r.body

\* client c owns playlist pid in the current state
Owns(c, pid) ==
  \E u \in users : /\ u.session_id = session[c].user_id
                   /\ \E p \in playlists : p.id = pid /\ p.user_id = u.id

\* the rows of the songs table outside playlist pid, with their numbers
SongsOutside(S, pid) ==
  [s \in {t \in BagToSet(S) : t.playlist_id # pid} |-> S[s]]

\* the youtube ids get_playlist may list for playlist pid
Listings(S, pid) ==
  {[i \in 1 .. Len(q) |-> q[i].youtube_id] : q \in OrderedByPosition(S, pid)}

Ids(q) == [i \in 1 .. Len(q) |-> q[i].id]

NoRepeat(q) == \A i, j \in 1 .. Len(q) : i # j => q[i] # q[j]

PlaylistIds == {p.id : p \in playlists}

(* C1: in every reachable state, also of interleaved add_to_playlist       *)
(* requests, no two Song rows have the same (youtube_id, playlist_id).     *)
C1_UniqueSongInPlaylist ==
  \A s \in BagToSet(songs) :
    /\ songs[s] = 1
    /\ \A t \in BagToSet(songs) :
         (s.youtube_id = t.youtube_id /\ s.playlist_id = t.playlist_id) => s = t

\* an add_to_playlist whose check passed is refused at commit: the row was
\* committed by another request in between
C1_Witness ==
  /\ resp.op = "add_to_playlist"
  /\ resp.status = 500
  /\ ExistingSong(songs, resp.args.song.id, resp.args.playlist_id) # {}

(* C2: a song inserted by add_to_playlist into playlist P gets position 0  *)
(* if P has no songs and otherwise 1 + the largest position in P, whatever *)
(* the other playlists hold; the songs of one playlist have pairwise       *)
(* distinct positions.                                                     *)
C2_InsertStep ==
  (resp = NoResponse /\ Inserted(resp')) =>
    LET pid == resp'.args.playlist_id
        inP == {s \in BagToSet(songs) : s.playlist_id = pid}
        pos == IF inP = {} THEN 0
               ELSE 1 + Max({s.position : s \in inP})
    IN /\ \E s \in BagToSet(songs') :
            /\ s.youtube_id = resp'.args.song.id
            /\ s.playlist_id = pid
            /\ s.position = pos
            /\ songs' = songs (+) SetToBag({s})
       /\ SongsOutside(songs', pid) = SongsOutside(songs, pid)

C2_DistinctPositions ==
  \A s \in BagToSet(songs) :
    /\ songs[s] = 1
    /\ \A t \in BagToSet(songs) :
         (s.playlist_id = t.playlist_id /\ s.position = t.position) => s = t

C2_Position == [](C2_DistinctPositions) /\ [][C2_InsertStep]_vars

\* a song was just inserted behind a gap: the playlist holds positions 1, 2
C2_Witness ==
  /\ Inserted(resp)
  /\ {s.position : s \in SongsOf(songs, resp.args.playlist_id)} = {1, 2}

(* C3: a successful delete_playlist of P leaves no Song row of P and no    *)
(* playlist P for get_playlist or get_all_playlists to return, and leaves  *)
(* every other playlist and its songs as they were; a playlist created     *)
(* later, also under the same id, is returned with an empty song list.     *)
C3_DeleteStep ==
  (Handled("delete_playlist") /\ resp'.status = 200) =>
    LET pid == resp'.args.playlist_id
    IN /\ \A s \in BagToSet(songs') : s.playlist_id # pid
       /\ playlists' = {p \in playlists : p.id # pid}
       /\ songs' = SongsOutside(songs, pid)
       /\ \A c \in Clients :
            /\ \A r \in get_playlist_responses(users', playlists', songs',
                                               session', c, pid) :
                 r.status = 404
            /\ \A e \in get_all_playlists_response(users', playlists', songs',
                                                   session', c).body.playlists :
                 e.id # pid

C3_CreateStep ==
  (Handled("create_playlist") /\ resp'.status = 200) =>
    /\ songs' = songs
    /\ \A r \in get_playlist_responses(users', playlists', songs', session',
                                       resp'.client, resp'.body.playlist.id) :
         r.status = 200 /\ r.body.songs = <<>>

C3_DeleteCascades == [][C3_DeleteStep /\ C3_CreateStep]_vars

\* the playlist with the largest id was deleted (the next one created takes
\* its id), other playlists and songs remain
C3_Witness ==
  /\ resp.op = "delete_playlist"
  /\ resp.status = 200
  /\ playlists # {}
  /\ songs # EmptyBag
  /\ \A p \in playlists : p.id < resp.args.playlist_id

(* C4: a request that omits a required top-level parameter is answered 400 *)
(* with an error field and leaves the users, playlists and songs tables    *)
(* unchanged.                                                              *)
OmitsParameter(r) ==
  \/ r.op = "search" /\ r.args.q = ""
  \/ r.op = "get_stream_url" /\ r.args.video_id = None /\ r.args.url = None
  \/ r.op = "create_playlist" /\ r.args.name = None
  \/ r.op = "add_to_playlist"
       /\ (r.args.playlist_id = NoneId \/ ~r.args.song.has)
  \/ r.op = "remove_from_playlist"
       /\ (r.args.playlist_id = NoneId \/ r.args.song_id = None)
  \/ r.op = "delete_playlist" /\ r.args.playlist_id = NoneId

C4_Step ==
  (resp = NoResponse /\ OmitsParameter(resp')) =>
    /\ resp'.status = 400
    /\ resp'.error # None
    /\ users' = users
    /\ playlists' = playlists
    /\ songs' = songs

C4_MissingParameter == [][C4_Step]_vars

\* a client without a user row was answered 400 for a request without song
C4_Witness ==
  /\ resp.op = "add_to_playlist"
  /\ ~resp.args.song.has
  /\ resp.args.playlist_id \in PlaylistIds
  /\ resp.status = 400
  /\ session[resp.client].user_id = None
  /\ songs # EmptyBag


(* C5: an add_to_playlist that names a playlist of the caller and carries  *)
(* a song object lacking its id or its title is answered 400 with an error *)
(* field, and no Song row is inserted.                                     *)
C5_Step ==
  (/\ Handled("add_to_playlist")
   /\ Owns(resp'.client, resp'.args.playlist_id)
   /\ resp'.args.song.has
   /\ (resp'.args.song.id = None \/ resp'.args.song.title = None)) =>
    /\ resp'.status = 400
    /\ resp'.error # None
    /\ songs' = songs

C5_IncompleteSongRejected == [][C5_Step]_vars

(* C6: get_playlist, add_to_playlist, remove_from_playlist and             *)
(* delete_playlist issued with a playlist id that does not exist or that   *)
(* another session owns are answered 404 with an error field and leave     *)
(* all Playlist and Song rows unchanged.                                   *)
NamesForeignPlaylist(r) ==
  /\ r.op \in {"get_playlist", "add_to_playlist", "remove_from_playlist",
               "delete_playlist"}
  /\ r.args.playlist_id # NoneId
  /\ ~Owns(r.client, r.args.playlist_id)
  /\ r.op = "add_to_playlist" => ~FalsySong(r.args.song)
  /\ r.op = "remove_from_playlist" => r.args.song_id # None

C6_Step ==
  (resp = NoResponse /\ NamesForeignPlaylist(resp')) =>
    /\ resp'.status = 404
    /\ resp'.error # None
    /\ playlists' = playlists
    /\ songs' = songs

C6_ForeignPlaylistNotFound == [][C6_Step]_vars

\* The same for the ids the handlers do not take for a missing parameter,
\* and whatever the answer no row of a playlist the session does not own
\* is changed.
C6_IsolationStep ==
  (resp = NoResponse /\ NamesForeignPlaylist(resp')) =>
    /\ resp'.status =
         (IF resp'.op # "get_playlist" /\ resp'.args.playlist_id = 0
          THEN 400 ELSE 404)
    /\ resp'.error # None
    /\ playlists' = playlists
    /\ songs' = songs

C6_Isolation == [][C6_IsolationStep]_vars

(* C7 as claimed: stream-URL resolution returns the audio-only format of   *)
(* the highest bitrate whenever one exists, another format carrying audio  *)
(* only when none exists, and no result (500) only when no format carries  *)
(* audio or the extractor fails.                                           *)
Resolved(r) == r.op = "get_stream_url" /\ r.status \in {200, 500}

AudioOnly(F) == {f \in F : f.audio /\ ~f.video}

C7_AudioOnlyFirst ==
  Resolved(resp) =>
    LET F == resp.args.offer.streams
    IN IF resp.args.offer.raises \/ {f \in F : f.audio} = {}
       THEN resp.status = 500
       ELSE /\ resp.status = 200
            /\ IF AudioOnly(F) # {}
               THEN \E f \in AudioOnly(F) :
                      /\ resp.body.stream_url = f.url
                      /\ \A g \in AudioOnly(F) : g.abr <= f.abr
               ELSE \E f \in F : f.audio /\ resp.body.stream_url = f.url

(* C7 as amended: the progressive mp4 format of the highest resolution     *)
(* whenever one exists, otherwise the audio-only format of the highest     *)
(* bitrate; no result (500) only when the video offers neither or the      *)
(* extractor fails.                                                        *)
ProgressiveMp4(F) == {f \in F : f.audio /\ f.video /\ f.ext = "mp4"}

C7_ProgressiveFirst ==
  Resolved(resp) =>
    LET F == resp.args.offer.streams
    IN IF resp.args.offer.raises \/ (ProgressiveMp4(F) = {} /\ AudioOnly(F) = {})
       THEN resp.status = 500
       ELSE /\ resp.status = 200
            /\ IF ProgressiveMp4(F) # {}
               THEN \E f \in ProgressiveMp4(F) :
                      /\ resp.body.stream_url = f.url
                      /\ \A g \in ProgressiveMp4(F) : g.resolution <= f.resolution
               ELSE \E f \in AudioOnly(F) :
                      /\ resp.body.stream_url = f.url
                      /\ \A g \in AudioOnly(F) : g.abr <= f.abr

\* the 720p progressive stream is returned for a video that also offers
\* audio-only formats and a lower progressive one
C7_Witness ==
  /\ Resolved(resp)
  /\ resp.status = 200
  /\ resp.body.stream_url = "prog-720"
  /\ AudioOnly(resp.args.offer.streams) # {}
  /\ Cardinality(ProgressiveMp4(resp.args.offer.streams)) = 2

(* C8: requests handled one at a time, get_playlist(P) lists the songs     *)
(* whose last request was an add, each once, in the order of their last    *)
(* insertion: an insertion appends to the list, a removal takes the song   *)
(* out and keeps the order of the others, adding a song already in P and   *)
(* removing a song not in P succeed and change no row.                     *)
Without(l, y) == LET keep(x) == x # y IN SelectSeq(l, keep)

InList(l, y) == \E i \in 1 .. Len(l) : l[i] = y

C8_AddStep ==
  (Handled("add_to_playlist") /\ resp'.status = 200) =>
    LET pid == resp'.args.playlist_id
        y == resp'.args.song.id
    IN /\ playlists' = playlists
       /\ SongsOutside(songs', pid) = SongsOutside(songs, pid)
       /\ IF \E l \in Listings(songs, pid) : InList(l, y)
          THEN songs' = songs
          ELSE Listings(songs', pid) =
                 {Append(l, y) : l \in Listings(songs, pid)}

C8_RemoveStep ==
  (Handled("remove_from_playlist") /\ resp'.status = 200) =>
    LET pid == resp'.args.playlist_id
        y == resp'.args.song_id
    IN /\ playlists' = playlists
       /\ SongsOutside(songs', pid) = SongsOutside(songs, pid)
       /\ IF \E l \in Listings(songs, pid) : InList(l, y)
          THEN Listings(songs', pid) =
                 {Without(l, y) : l \in Listings(songs, pid)}
          ELSE songs' = songs

C8_GetStep ==
  (Handled("get_playlist") /\ resp'.status = 200) =>
    /\ Ids(resp'.body.songs) \in Listings(songs, resp'.args.playlist_id)
    /\ songs' = songs

C8_OneListing ==
  \A pid \in PlaylistIds :
    /\ Cardinality(Listings(songs, pid)) = 1
    /\ \A l \in Listings(songs, pid) : NoRepeat(l)

C8_InsertionOrder ==
  [](C8_OneListing) /\ [][C8_AddStep /\ C8_RemoveStep /\ C8_GetStep]_vars

\* get_playlist lists b before a: a was removed and inserted again after b
C8_Witness ==
  /\ resp.op = "get_playlist"
  /\ resp.status = 200
  /\ Ids(resp.body.songs) = <<"b", "a">>
  /\ {s.position : s \in SongsOf(songs, resp.args.playlist_id)} = {1, 2}

(* C9: in every reachable state, also of interleaved create_playlist       *)
(* requests, no two playlists of one user have the same name.              *)
C9_UniquePlaylistName ==
  \A p, q \in playlists :
    (p.user_id = q.user_id /\ p.name = q.name) => p = q

(* C10: requests 'add', 'clear' and DELETE keep the session's current      *)
(* playlist free of two entries with the same id: an 'add' of an id that   *)
(* is present leaves the list unchanged, an 'add' of a new id appends the  *)
(* song, DELETE removes every entry with the given id and no other.        *)
Current(sess, c) == sess[c].current_playlist

C10_Step ==
  Handled("current_playlist") =>
    LET c == resp'.client
        a == resp'.args
        old == Current(session, c)
        new == Current(session', c)
    IN /\ (a.method = "POST" /\ a.data.action = "add" /\ a.data.song.has
                /\ a.data.song.id # None) =>
            IF InList(Ids(old), a.data.song.id)
            THEN new = old
            ELSE new = Append(old, a.data.song)
       /\ (a.method = "POST" /\ a.data.action = "clear") => new = <<>>
       /\ (a.method = "DELETE" /\ a.song_id # None) =>
            LET keep(e) == e.id # a.song_id IN new = SelectSeq(old, keep)
       /\ ((a.method = "DELETE" \/ a.data.action \in {"add", "clear"})
                /\ NoRepeat(Ids(old))) =>
            NoRepeat(Ids(new))

C10_NoDuplicateIds == [][C10_Step]_vars

\* a DELETE took the two entries with id a out of a list that also held b
C10_Witness ==
  /\ resp.op = "current_playlist"
  /\ resp.args.method = "DELETE"
  /\ resp.args.song_id = "a"
  /\ resp.status = 200
  /\ Ids(Current(session, resp.client)) = <<"b">>

====
